---- MODULE Spec2Model ----
(***************************************************************************)
(* Model of the adaptive set of task 7 (class Set over SetImpl with the    *)
(* two implementations VectorSetImpl and HashSetImpl).                     *)
(*                                                                         *)
(* A SetImpl object is a record [kind, vdata, hdata]: kind is the dynamic  *)
(* type ("Vector" or "Hash"), vdata the std::vector<int> of a              *)
(* VectorSetImpl, hdata the std::unordered_set<int> of a HashSetImpl (the  *)
(* field of the other class is empty).  A Set is its impl: the unique_ptr  *)
(* owns exactly one SetImpl and every copy of data is by value.            *)
(***************************************************************************)
EXTENDS Integers, Sequences, FiniteSets, TLC

\* forced[s] holds a VectorSetImpl (v) and a HashSetImpl (h) used directly,
\* without Set, and given the calls sets[s] is given
VARIABLES sets, ref, last, fill, resOps, forced

\* The instance counter of task 4: numbers.count_ is counter<Number>::count_,
\* numbers.objs the values of the Number objects alive, in the order of
\* their construction.
VARIABLES numbers

\* The ExpressionFactory of task 8.  An object is the number of the new
\* expression that made it (Null: an empty shared_ptr).  factory.constants
\* and factory.variables are the two maps, factory.next the number the next
\* new object gets.  fcall describes the latest call: op(key), the shared_ptr
\* it returned (ret), and per key the object createConstant / createVariable
\* returned last since the last removeConstant / removeVariable call on the
\* key (sinceC, sinceV), the one createConstant returned first for a key of
\* the constructor's range (firstC) and
\* the keys removeConstant was called on after a createConstant call on them
\* (removedC).
VARIABLES factory, fcall

vars == <<sets, ref, last, fill, resOps, forced, numbers, factory, fcall>>

(***************************************************************************)
(* Program constants and bounds of the exploration                         *)
(***************************************************************************)
SWITCH_THRESHOLD == 20

\* main fills s1 with the values 0..FillCount-1
FillCount == 25

\* s1 and r receive the values 0..MaxVal
MaxVal == 24

\* add/remove touch the values from Window below the largest element up to
\* one above it
Window == 2

\* number of add/remove calls while a union/intersection result is in use
MaxResOps == 1

\* length up to which a run of migrating calls is counted
MaxThrash == 4

\* number of constructor and destructor calls of Number objects
MaxCount == 7

\* the values Number objects are constructed with
NumberValues == 1..2

\* the constants the ExpressionFactory constructor builds
MinCached == -5

MaxCached == 256

\* number of objects made after the constructor of the ExpressionFactory
MaxObjects == 3

\* the arguments of createConstant / removeConstant, on both sides of the
\* two ends of the cached range, and of createVariable / removeVariable
ConstantKeys == {MinCached - 1, MinCached, MaxCached, MaxCached + 1}

VariableKeys == {"x", "y"}

CachedKeys == {v \in ConstantKeys : v >= MinCached /\ v <= MaxCached}

Null == -1

(***************************************************************************)
(* ExpressionFactory (task 8)                                              *)
(***************************************************************************)
\* ExpressionFactory(): constants[i] = new Constant(i) for i = -5, ..., 256,
\* the objects 0, 1, ... in this order
ExpressionFactory_new ==
    [constants |-> [i \in MinCached..MaxCached |-> i - MinCached],
     variables |-> [n \in {} |-> Null],
     next |-> MaxCached - MinCached + 1]

\* map[key] of std::unordered_map: the map after the lookup, which inserts an
\* empty shared_ptr for a key that is not in it
Subscript(map, key) ==
    IF key \in DOMAIN map THEN map
    ELSE [k \in DOMAIN map \cup {key} |-> IF k = key THEN Null ELSE map[k]]

\* map.erase(key)
Erase(map, key) == [k \in DOMAIN map \ {key} |-> map[k]]

\* createConstant(value): the factory it leaves (f) and what it returns (ret)
ExpressionFactory_createConstant(f, value) ==
    IF value >= MinCached /\ value <= MaxCached
    THEN LET cs == Subscript(f.constants, value)
         IN  [f |-> [f EXCEPT !.constants = cs], ret |-> cs[value]]
    ELSE IF value \notin DOMAIN f.constants
    THEN LET cs == [Subscript(f.constants, value) EXCEPT ![value] = f.next]
         IN  [f |-> [f EXCEPT !.constants = cs, !.next = @ + 1], ret |-> cs[value]]
    ELSE [f |-> f, ret |-> f.constants[value]]

\* createVariable(name)
ExpressionFactory_createVariable(f, name) ==
    LET vs == Subscript(f.variables, name)
    IN  IF vs[name] = Null
        THEN [f |-> [f EXCEPT !.variables = [vs EXCEPT ![name] = f.next],
                              !.next = @ + 1],
              ret |-> f.next]
        ELSE [f |-> [f EXCEPT !.variables = vs], ret |-> vs[name]]

\* variant: erase without the test of the range
ExpressionFactory_removeConstant_any(f, value) ==
    [f EXCEPT !.constants = Erase(@, value)]

\* removeConstant(value)
ExpressionFactory_removeConstant(f, value) ==
    IF value < MinCached \/ value > MaxCached
    THEN [f EXCEPT !.constants = Erase(@, value)]
    ELSE f

\* removeVariable(name)
ExpressionFactory_removeVariable(f, name) ==
    [f EXCEPT !.variables = Erase(@, name)]

NoFactoryCall ==
    [op |-> "new", key |-> "-", ret |-> Null,
     sinceC |-> [v \in ConstantKeys |-> Null],
     sinceV |-> [n \in VariableKeys |-> Null],
     firstC |-> [v \in CachedKeys |-> Null],
     removedC |-> {}]

SetIds == {"s1", "s2", "r"}

Values == 0..MaxVal

\* the values main adds to s2
S2Vals == {10, 20, 25, 30}

(***************************************************************************)
(* Helpers on sets and sequences                                           *)
(***************************************************************************)
Range(seq) == {seq[i] : i \in DOMAIN seq}

SetMax(S) == CHOOSE x \in S : \A y \in S : y <= x

SetMin(S) == CHOOSE x \in S : \A y \in S : x <= y

\* every value a call may be given
AllVals == 0..(SetMax(Values \cup S2Vals) + 1)

\* AllVals in ascending and in descending order
Ascending == [i \in 1..Cardinality(AllVals) |-> i - 1]

Descending == [i \in 1..Cardinality(AllVals) |-> Cardinality(AllVals) - i]

\* the elements of S (a subset of AllVals) in ascending, in descending order
SortAsc(S) == SelectSeq(Ascending, LAMBDA x : x \in S)

SortDesc(S) == SelectSeq(Descending, LAMBDA x : x \in S)

VecImpl(data) == [kind |-> "Vector", vdata |-> data, hdata |-> {}]

HashImpl(data) == [kind |-> "Hash", vdata |-> <<>>, hdata |-> data]

(***************************************************************************)
(* VectorSetImpl                                                           *)
(***************************************************************************)
VectorSetImpl_contains(data, value) == \E i \in DOMAIN data : data[i] = value

\* variant: push_back without the std::find check
VectorSetImpl_add_always(data, value) == Append(data, value)

VectorSetImpl_add(data, value) ==
    IF ~VectorSetImpl_contains(data, value) THEN Append(data, value) ELSE data

VectorSetImpl_remove(data, value) == SelectSeq(data, LAMBDA x : x # value)

VectorSetImpl_size(data) == Len(data)

(***************************************************************************)
(* HashSetImpl                                                             *)
(***************************************************************************)
HashSetImpl_add(data, value) == data \cup {value}

HashSetImpl_remove(data, value) == data \ {value}

HashSetImpl_contains(data, value) == value \in data

HashSetImpl_size(data) == Cardinality(data)

\* The iteration order of std::unordered_set is unspecified: get_elements
\* yields the elements in one of the orders the container may have.
HashSetImpl_get_elements(data) == {SortAsc(data), SortDesc(data)}

(***************************************************************************)
(* SetImpl: virtual dispatch on the dynamic type                           *)
(***************************************************************************)
SetImpl_add(impl, value) ==
    IF impl.kind = "Vector"
    THEN [impl EXCEPT !.vdata = VectorSetImpl_add(impl.vdata, value)]
    ELSE [impl EXCEPT !.hdata = HashSetImpl_add(impl.hdata, value)]

SetImpl_remove(impl, value) ==
    IF impl.kind = "Vector"
    THEN [impl EXCEPT !.vdata = VectorSetImpl_remove(impl.vdata, value)]
    ELSE [impl EXCEPT !.hdata = HashSetImpl_remove(impl.hdata, value)]

SetImpl_contains(impl, value) ==
    IF impl.kind = "Vector"
    THEN VectorSetImpl_contains(impl.vdata, value)
    ELSE HashSetImpl_contains(impl.hdata, value)

SetImpl_size(impl) ==
    IF impl.kind = "Vector"
    THEN VectorSetImpl_size(impl.vdata)
    ELSE HashSetImpl_size(impl.hdata)

\* the set of sequences get_elements may return
SetImpl_get_elements(impl) ==
    IF impl.kind = "Vector"
    THEN {impl.vdata}
    ELSE HashSetImpl_get_elements(impl.hdata)

\* for (int v : elements) impl->add(v), from the first element on
RECURSIVE AddAll(_, _)
AddAll(impl, elements) ==
    IF elements = <<>> THEN impl
    ELSE AddAll(SetImpl_add(impl, Head(elements)), Tail(elements))

(***************************************************************************)
(* VectorSetImpl / HashSetImpl: union_with and intersection_with           *)
(***************************************************************************)
\* variant: if (contains(val)) push_back(val)
RECURSIVE VectorUnionLoop_inverted(_, _, _)
VectorUnionLoop_inverted(data, result, elements) ==
    IF elements = <<>> THEN result
    ELSE VectorUnionLoop_inverted(data,
                                  IF VectorSetImpl_contains(data, Head(elements))
                                  THEN Append(result, Head(elements))
                                  ELSE result,
                                  Tail(elements))

\* for (int val : other.get_elements()) if (!contains(val)) push_back(val)
RECURSIVE VectorUnionLoop(_, _, _)
VectorUnionLoop(data, result, elements) ==
    IF elements = <<>> THEN result
    ELSE VectorUnionLoop(data,
                         IF ~VectorSetImpl_contains(data, Head(elements))
                         THEN Append(result, Head(elements))
                         ELSE result,
                         Tail(elements))

\* variant: every element of other is appended, without the contains check
VectorSetImpl_union_with_all(self, other) ==
    {VecImpl(self.vdata \o e) : e \in SetImpl_get_elements(other)}

VectorSetImpl_union_with(self, other) ==
    {VecImpl(VectorUnionLoop(self.vdata, self.vdata, e)) :
        e \in SetImpl_get_elements(other)}

VectorSetImpl_intersection_with(self, other) ==
    {VecImpl(SelectSeq(self.vdata, LAMBDA val : SetImpl_contains(other, val)))}

HashSetImpl_union_with(self, other) ==
    {HashImpl(self.hdata \cup Range(e)) : e \in SetImpl_get_elements(other)}

\* variant: the result is a copy of the receiver
HashSetImpl_intersection_with_copy(self, other) == {HashImpl(self.hdata)}

HashSetImpl_intersection_with(self, other) ==
    {HashImpl({val \in self.hdata : SetImpl_contains(other, val)})}

SetImpl_union_with(self, other) ==
    IF self.kind = "Vector"
    THEN VectorSetImpl_union_with(self, other)
    ELSE HashSetImpl_union_with(self, other)

SetImpl_intersection_with(self, other) ==
    IF self.kind = "Vector"
    THEN VectorSetImpl_intersection_with(self, other)
    ELSE HashSetImpl_intersection_with(self, other)

(***************************************************************************)
(* Set.  Every operation yields the set of impl values it may leave (more  *)
(* than one only where the iteration order of a HashSetImpl shows).        *)
(***************************************************************************)
NewSet == VecImpl(<<>>)

\* variant: the replacement object is a VectorSetImpl
Set_switch_to_hash_vec(impl) ==
    {AddAll(VecImpl(<<>>), e) : e \in SetImpl_get_elements(impl)}

Set_switch_to_hash(impl) ==
    {AddAll(HashImpl({}), e) : e \in SetImpl_get_elements(impl)}

\* variant: the copy loop stops one element early
Set_switch_to_vector_short(impl) ==
    {AddAll(VecImpl(<<>>), SubSeq(e, 1, Len(e) - 1)) : e \in SetImpl_get_elements(impl)}

Set_switch_to_vector(impl) ==
    {AddAll(VecImpl(<<>>), e) : e \in SetImpl_get_elements(impl)}

\* switch_to_hash / switch_to_vector when the (k+1)-th impl->add(v) of the
\* copy loop throws (std::bad_alloc): impl is already the new object and
\* holds the first k elements
Set_switch_to_hash_throws(impl, k) ==
    {AddAll(HashImpl({}), SubSeq(e, 1, k)) : e \in SetImpl_get_elements(impl)}

Set_switch_to_vector_throws(impl, k) ==
    {AddAll(VecImpl(<<>>), SubSeq(e, 1, k)) : e \in SetImpl_get_elements(impl)}

\* variant: no switch when the value is contained
Set_add_absent(impl, value) ==
    LET switched == IF /\ SetImpl_size(impl) >= SWITCH_THRESHOLD
                       /\ impl.kind = "Vector"
                       /\ ~SetImpl_contains(impl, value)
                    THEN Set_switch_to_hash(impl)
                    ELSE {impl}
    IN  {SetImpl_add(i, value) : i \in switched}

\* variant: add without the switch
Set_add_plain(impl, value) == {SetImpl_add(impl, value)}

\* variant: size() > SWITCH_THRESHOLD
Set_add_strict(impl, value) ==
    LET switched == IF SetImpl_size(impl) > SWITCH_THRESHOLD /\ impl.kind = "Vector"
                    THEN Set_switch_to_hash(impl)
                    ELSE {impl}
    IN  {SetImpl_add(i, value) : i \in switched}

\* variant: the size is tested after impl->add(value)
Set_add_late(impl, value) ==
    LET added == SetImpl_add(impl, value)
    IN  IF SetImpl_size(added) >= SWITCH_THRESHOLD /\ added.kind = "Vector"
        THEN Set_switch_to_hash(added)
        ELSE {added}

Set_add(impl, value) ==
    LET switched == IF SetImpl_size(impl) >= SWITCH_THRESHOLD /\ impl.kind = "Vector"
                    THEN Set_switch_to_hash(impl)
                    ELSE {impl}
    IN  {SetImpl_add(i, value) : i \in switched}

\* variant: remove also switches a VectorSetImpl of more than
\* SWITCH_THRESHOLD elements to a HashSetImpl
Set_remove_both_ways(impl, value) ==
    LET removed == SetImpl_remove(impl, value)
    IN  IF SetImpl_size(removed) <= SWITCH_THRESHOLD /\ removed.kind = "Hash"
        THEN Set_switch_to_vector(removed)
        ELSE IF SetImpl_size(removed) > SWITCH_THRESHOLD /\ removed.kind = "Vector"
        THEN Set_switch_to_hash(removed)
        ELSE {removed}

\* variant: every remove on a HashSetImpl switches
Set_remove_always(impl, value) ==
    LET removed == SetImpl_remove(impl, value)
    IN  IF removed.kind = "Hash" THEN Set_switch_to_vector(removed) ELSE {removed}

\* variant: a HashSetImpl is kept down to half of SWITCH_THRESHOLD
Set_remove_band(impl, value) ==
    LET removed == SetImpl_remove(impl, value)
    IN  IF 2 * SetImpl_size(removed) <= SWITCH_THRESHOLD /\ removed.kind = "Hash"
        THEN Set_switch_to_vector(removed)
        ELSE {removed}

\* variant: size() < SWITCH_THRESHOLD
Set_remove_strict(impl, value) ==
    LET removed == SetImpl_remove(impl, value)
    IN  IF SetImpl_size(removed) < SWITCH_THRESHOLD /\ removed.kind = "Hash"
        THEN Set_switch_to_vector(removed)
        ELSE {removed}

Set_remove(impl, value) ==
    LET removed == SetImpl_remove(impl, value)
    IN  IF SetImpl_size(removed) <= SWITCH_THRESHOLD /\ removed.kind = "Hash"
        THEN Set_switch_to_vector(removed)
        ELSE {removed}

Set_contains(impl, value) == SetImpl_contains(impl, value)

Set_size(impl) == SetImpl_size(impl)

\* print, like contains and size, is const and only reads through impl: the
\* Set is left holding the same object
Set_print(impl) == impl

\* variant: the result is switched to a HashSetImpl when it holds
\* SWITCH_THRESHOLD elements or more
Set_union_with_switched(self, other) ==
    UNION {IF SetImpl_size(i) >= SWITCH_THRESHOLD /\ i.kind = "Vector"
           THEN Set_switch_to_hash(i)
           ELSE {i} : i \in SetImpl_union_with(self, other)}

Set_union_with(self, other) == SetImpl_union_with(self, other)

Set_intersection_with(self, other) == SetImpl_intersection_with(self, other)

(***************************************************************************)
(* Observers used by the properties                                        *)
(***************************************************************************)
\* the values v for which contains(v) holds
Elems(impl) == {v \in AllVals : Set_contains(impl, v)}

\* what the storage holds
Stored(impl) == IF impl.kind = "Vector" THEN Range(impl.vdata) ELSE impl.hdata

Migration(pre, post) ==
    IF pre.kind = "Vector" /\ post.kind = "Hash" THEN "up"
    ELSE IF pre.kind = "Hash" /\ post.kind = "Vector" THEN "down"
    ELSE "none"

(***************************************************************************)
(* The calls the exploration makes                                         *)
(***************************************************************************)
\* the value above the elements of S (s2: the next value of S2Vals)
NextVal(s, S) ==
    IF s = "s2"
    THEN LET above == {v \in S2Vals : \A x \in S : x < v}
         IN  IF above # {} THEN {SetMin(above)} ELSE {}
    ELSE IF S = {} THEN {0} ELSE {SetMax(S) + 1} \cap AllVals

\* the values passed to remove on set s in its current state: the elements
\* within w of the largest one, and the value above it
Cand(s, impl, w) ==
    LET S  == Stored(impl)
        lo == IF S = {} THEN 0 ELSE SetMax(S) - w
    IN  {v \in S : lo <= v} \cup NextVal(s, S)

\* the values passed to add: those of Cand that are present, and the value
\* above the elements (on s1 once s1 holds all of 0..largest)
AddCand(s, impl, w) ==
    LET S == Stored(impl)
        C == Cand(s, impl, w)
    IN  {v \in C : v \in S \/ (s = "s1" => (v \in Values /\ S = 0..(v - 1)))}

NoFill == [n |-> -1, ups |-> 0, downs |-> 0]

FreshFill == [n |-> 0, ups |-> 0, downs |-> 0]

\* last describes the latest call: op(val) on set, whether val was contained
\* before it (hit), the migration it made (mig), the migration the call
\* before it made (pmig), whether it repeats the call before it (rep), and
\* the length of the run of calls it ends in which add(val) and remove(val)
\* alternate on set and every call migrates (thrash); for union_with and
\* intersection_with, the kind of the set called (recv)
NoCall == [op |-> "new", set |-> "-", val |-> -1, hit |-> FALSE,
           mig |-> "none", pmig |-> "none", rep |-> FALSE, thrash |-> 0,
           recv |-> "-"]

Repeats(op, s, v) == last.op = op /\ last.set = s /\ last.val = v

\* thrash of a call op(v) on s that made migration m, op following prev
Thrash(prev, s, v, m) ==
    IF m = "none" THEN 0
    ELSE IF last.thrash > 0 /\ Repeats(prev, s, v)
    THEN IF last.thrash < MaxThrash THEN last.thrash + 1 ELSE MaxThrash
    ELSE 1

\* resOps is -1 until the first union_with/intersection_with call and then
\* counts the add/remove calls made; r is used once it holds a result
CanMutate(s) == /\ resOps < MaxResOps
                /\ s = "r" => resOps >= 0

Counted == IF resOps >= 0 THEN resOps + 1 ELSE resOps

Init ==
    /\ sets = [s \in SetIds |-> NewSet]
    /\ ref = [s \in SetIds |-> {}]
    /\ last = NoCall
    /\ fill = [s \in SetIds |-> FreshFill]
    /\ resOps = -1
    /\ forced = [s \in SetIds |-> [v |-> VecImpl(<<>>), h |-> HashImpl({})]]
    /\ numbers = [count_ |-> 0, objs |-> <<>>]
    /\ factory = ExpressionFactory_new
    /\ fcall = NoFactoryCall

\* s.add(v)
Add(s, v) ==
    /\ CanMutate(s)
    /\ \E post \in Set_add(sets[s], v) :
        LET m == Migration(sets[s], post) IN
        /\ sets' = [sets EXCEPT ![s] = post]
        /\ last' = [op |-> "add", set |-> s, val |-> v,
                    hit |-> Set_contains(sets[s], v), mig |-> m,
                    pmig |-> last.mig, rep |-> Repeats("add", s, v),
                    thrash |-> Thrash("remove", s, v, m), recv |-> "-"]
        /\ fill' = [fill EXCEPT ![s] =
                      IF @.n = v
                      THEN [n |-> @.n + 1,
                            ups |-> @.ups + (IF m = "up" THEN 1 ELSE 0),
                            downs |-> @.downs + (IF m = "down" THEN 1 ELSE 0)]
                      ELSE NoFill]
    /\ ref' = [ref EXCEPT ![s] = @ \cup {v}]
    /\ resOps' = Counted
    /\ forced' = [forced EXCEPT ![s] = [v |-> SetImpl_add(@.v, v),
                                        h |-> SetImpl_add(@.h, v)]]
    /\ UNCHANGED <<numbers, factory, fcall>>

\* s.remove(v)
Remove(s, v) ==
    /\ CanMutate(s)
    /\ \E post \in Set_remove(sets[s], v) :
        LET m == Migration(sets[s], post) IN
        /\ sets' = [sets EXCEPT ![s] = post]
        /\ last' = [op |-> "remove", set |-> s, val |-> v,
                    hit |-> Set_contains(sets[s], v),
                    mig |-> m, pmig |-> last.mig,
                    rep |-> Repeats("remove", s, v),
                    thrash |-> Thrash("add", s, v, m), recv |-> "-"]
    /\ fill' = [fill EXCEPT ![s] = NoFill]
    /\ ref' = [ref EXCEPT ![s] = @ \ {v}]
    /\ resOps' = Counted
    /\ forced' = [forced EXCEPT ![s] = [v |-> SetImpl_remove(@.v, v),
                                        h |-> SetImpl_remove(@.h, v)]]
    /\ UNCHANGED <<numbers, factory, fcall>>

\* variant: the union is also stored in the receiver
UnionWith_in_place(a, b) ==
    /\ \E post \in Set_union_with(sets[a], sets[b]) :
        sets' = [sets EXCEPT ![a] = post, !["r"] = post]
    /\ last' = [NoCall EXCEPT !.op = "union", !.set = "r", !.pmig = last.mig,
                              !.recv = sets[a].kind]
    /\ fill' = [fill EXCEPT !["r"] = NoFill]
    /\ ref' = [ref EXCEPT !["r"] = ref[a] \cup ref[b]]
    /\ resOps' = IF resOps < 0 THEN 0 ELSE resOps
    /\ \E fv \in SetImpl_union_with(forced[a].v, forced[b].v),
          fh \in SetImpl_union_with(forced[a].h, forced[b].h) :
        forced' = [forced EXCEPT !["r"] = [v |-> fv, h |-> fh]]
    /\ UNCHANGED <<numbers, factory, fcall>>

\* r = a.union_with(b)
UnionWith(a, b) ==
    /\ \E post \in Set_union_with(sets[a], sets[b]) :
        sets' = [sets EXCEPT !["r"] = post]
    /\ last' = [NoCall EXCEPT !.op = "union", !.set = "r", !.pmig = last.mig,
                              !.recv = sets[a].kind]
    /\ fill' = [fill EXCEPT !["r"] = NoFill]
    /\ ref' = [ref EXCEPT !["r"] = ref[a] \cup ref[b]]
    /\ resOps' = IF resOps < 0 THEN 0 ELSE resOps
    /\ \E fv \in SetImpl_union_with(forced[a].v, forced[b].v),
          fh \in SetImpl_union_with(forced[a].h, forced[b].h) :
        forced' = [forced EXCEPT !["r"] = [v |-> fv, h |-> fh]]
    /\ UNCHANGED <<numbers, factory, fcall>>

\* r = a.intersection_with(b)
IntersectionWith(a, b) ==
    /\ \E post \in Set_intersection_with(sets[a], sets[b]) :
        sets' = [sets EXCEPT !["r"] = post]
    /\ last' = [NoCall EXCEPT !.op = "intersection", !.set = "r", !.pmig = last.mig,
                              !.recv = sets[a].kind]
    /\ fill' = [fill EXCEPT !["r"] = NoFill]
    /\ ref' = [ref EXCEPT !["r"] = ref[a] \cap ref[b]]
    /\ resOps' = IF resOps < 0 THEN 0 ELSE resOps
    /\ \E fv \in SetImpl_intersection_with(forced[a].v, forced[b].v),
          fh \in SetImpl_intersection_with(forced[a].h, forced[b].h) :
        forced' = [forced EXCEPT !["r"] = [v |-> fv, h |-> fh]]
    /\ UNCHANGED <<numbers, factory, fcall>>

\* s.contains(v) for every v, s.size() and s.print()
Query(s) ==
    /\ sets' = [sets EXCEPT ![s] = Set_print(@)]
    /\ last' = [NoCall EXCEPT !.op = "query", !.set = s, !.pmig = last.mig,
                              !.hit = \E v \in AllVals : Set_contains(sets[s], v),
                              !.val = Set_size(sets[s])]
    /\ UNCHANGED <<ref, fill, resOps, forced>>
    /\ UNCHANGED <<numbers, factory, fcall>>

\* s.add(v) when switch_to_hash throws at its (k+1)-th insertion: the
\* exception leaves add before impl->add(value)
AddThrows(s, v, k) ==
    /\ SetImpl_size(sets[s]) >= SWITCH_THRESHOLD /\ sets[s].kind = "Vector"
    /\ k < SetImpl_size(sets[s])
    /\ \E post \in Set_switch_to_hash_throws(sets[s], k) :
        sets' = [sets EXCEPT ![s] = post]
    /\ last' = [NoCall EXCEPT !.op = "add_throws", !.set = s, !.val = v,
                              !.hit = Set_contains(sets[s], v), !.pmig = last.mig]
    /\ UNCHANGED <<ref, fill, resOps, forced>>
    /\ UNCHANGED <<numbers, factory, fcall>>

\* s.remove(v) when switch_to_vector throws at its (k+1)-th insertion, after
\* impl->remove(value)
RemoveThrows(s, v, k) ==
    LET removed == SetImpl_remove(sets[s], v) IN
    /\ SetImpl_size(removed) <= SWITCH_THRESHOLD /\ removed.kind = "Hash"
    /\ k < SetImpl_size(removed)
    /\ \E post \in Set_switch_to_vector_throws(removed, k) :
        sets' = [sets EXCEPT ![s] = post]
    /\ last' = [NoCall EXCEPT !.op = "remove_throws", !.set = s, !.val = v,
                              !.hit = Set_contains(sets[s], v), !.pmig = last.mig]
    /\ ref' = [ref EXCEPT ![s] = @ \ {v}]
    /\ UNCHANGED <<fill, resOps, forced>>
    /\ UNCHANGED <<numbers, factory, fcall>>

(***************************************************************************)
(* counter<Number> and Number (task 4)                                     *)
(***************************************************************************)
\* counter(), counter(const counter&), counter(counter&&) and ~counter(), as
\* the value they leave in count_
counter_ctor(count_) == count_ + 1

counter_copy(count_) == count_ + 1

counter_move(count_) == count_ + 1

counter_dtor(count_) == count_ + 1

\* Number n{value}
NumberCtor(value) ==
    /\ numbers.count_ < MaxCount
    /\ numbers' = [count_ |-> counter_ctor(numbers.count_),
                   objs |-> Append(numbers.objs, value)]
    /\ UNCHANGED <<sets, ref, last, fill, resOps, forced, factory, fcall>>

\* Number n{other}, other the i-th object alive
NumberCopy(i) ==
    /\ numbers.count_ < MaxCount
    /\ numbers' = [count_ |-> counter_copy(numbers.count_),
                   objs |-> Append(numbers.objs, numbers.objs[i])]
    /\ UNCHANGED <<sets, ref, last, fill, resOps, forced, factory, fcall>>

\* Number n{std::move(other)}: other stays alive and keeps its int
NumberMove(i) ==
    /\ numbers.count_ < MaxCount
    /\ numbers' = [count_ |-> counter_move(numbers.count_),
                   objs |-> Append(numbers.objs, numbers.objs[i])]
    /\ UNCHANGED <<sets, ref, last, fill, resOps, forced, factory, fcall>>

\* the object constructed last goes out of scope
NumberDtor ==
    /\ numbers.count_ < MaxCount
    /\ numbers.objs # <<>>
    /\ numbers' = [count_ |-> counter_dtor(numbers.count_),
                   objs |-> SubSeq(numbers.objs, 1, Len(numbers.objs) - 1)]
    /\ UNCHANGED <<sets, ref, last, fill, resOps, forced, factory, fcall>>

\* factory.createConstant(value)
CreateConstant(value) ==
    LET r == ExpressionFactory_createConstant(factory, value) IN
    /\ r.f.next <= ExpressionFactory_new.next + MaxObjects
    /\ factory' = r.f
    /\ fcall' = [fcall EXCEPT !.op = "createConstant", !.key = value,
                              !.ret = r.ret,
                              !.sinceC[value] = r.ret,
                              !.firstC = IF value \in CachedKeys /\ @[value] = Null
                                         THEN [@ EXCEPT ![value] = r.ret] ELSE @]
    /\ UNCHANGED <<sets, ref, last, fill, resOps, forced, numbers>>

\* factory.removeConstant(value)
RemoveConstant(value) ==
    /\ factory' = ExpressionFactory_removeConstant(factory, value)
    /\ fcall' = [fcall EXCEPT !.op = "removeConstant", !.key = value,
                              !.ret = Null, !.sinceC[value] = Null,
                              !.removedC = IF fcall.sinceC[value] # Null
                                           THEN @ \cup {value} ELSE @]
    /\ UNCHANGED <<sets, ref, last, fill, resOps, forced, numbers>>

\* factory.createVariable(name)
CreateVariable(name) ==
    LET r == ExpressionFactory_createVariable(factory, name) IN
    /\ r.f.next <= ExpressionFactory_new.next + MaxObjects
    /\ factory' = r.f
    /\ fcall' = [fcall EXCEPT !.op = "createVariable", !.key = name,
                              !.ret = r.ret, !.sinceV[name] = r.ret]
    /\ UNCHANGED <<sets, ref, last, fill, resOps, forced, numbers>>

\* factory.removeVariable(name)
RemoveVariable(name) ==
    /\ factory' = ExpressionFactory_removeVariable(factory, name)
    /\ fcall' = [fcall EXCEPT !.op = "removeVariable", !.key = name,
                              !.ret = Null, !.sinceV[name] = Null]
    /\ UNCHANGED <<sets, ref, last, fill, resOps, forced, numbers>>

Thrown == last.op \in {"add_throws", "remove_throws"}

\* add and remove on one set, any value near its largest element
Next ==
    \/ \E v \in AddCand("s1", sets["s1"], Window) : Add("s1", v)
    \/ \E v \in Cand("s1", sets["s1"], Window) : Remove("s1", v)

Spec == Init /\ [][Next]_vars

\* Three sets.  s1 and s2 are built by add calls of new values above their
\* largest element, as main builds them; union_with and intersection_with are called on s1 and
\* s2 with any of the three sets as argument, and the result is stored in r;
\* from the first such call on, at most MaxResOps add/remove calls are made,
\* on any of the three sets; contains, size and print are called on s1 and s2
\* while they are built.
NextAlg ==
    \/ \E s \in SetIds : \E v \in AddCand(s, sets[s], 0) :
           (resOps >= 0 \/ v \notin Stored(sets[s])) /\ Add(s, v)
    \/ resOps >= 0 /\ \E s \in SetIds : \E v \in Cand(s, sets[s], 0) : Remove(s, v)
    \/ \E a \in {"s1", "s2"}, b \in SetIds : UnionWith(a, b)
    \/ \E a \in {"s1", "s2"}, b \in SetIds : IntersectionWith(a, b)
    \/ resOps < 0 /\ \E s \in {"s1", "s2"} : Query(s)

SpecAlg == Init /\ [][NextAlg]_vars

\* add and remove on one set where the copy loop of a migration may throw;
\* no call follows the exception
NextThrows ==
    \/ ~Thrown /\ \E v \in AddCand("s1", sets["s1"], Window) : Add("s1", v)
    \/ ~Thrown /\ \E v \in Cand("s1", sets["s1"], Window) : Remove("s1", v)
    \/ ~Thrown /\ \E v \in AddCand("s1", sets["s1"], Window), k \in 0..MaxVal :
           AddThrows("s1", v, k)
    \/ ~Thrown /\ \E v \in Cand("s1", sets["s1"], Window), k \in 0..MaxVal :
           RemoveThrows("s1", v, k)

SpecThrows == Init /\ [][NextThrows]_vars

\* constructions and destructions of Number objects
NextCounter ==
    \/ \E value \in NumberValues : NumberCtor(value)
    \/ \E i \in DOMAIN numbers.objs : NumberCopy(i)
    \/ \E i \in DOMAIN numbers.objs : NumberMove(i)
    \/ NumberDtor

SpecCounter == Init /\ [][NextCounter]_vars

\* calls on ExpressionFactory::instance()
NextFactory ==
    \/ \E value \in ConstantKeys : CreateConstant(value)
    \/ \E value \in ConstantKeys : RemoveConstant(value)
    \/ \E name \in VariableKeys : CreateVariable(name)
    \/ \E name \in VariableKeys : RemoveVariable(name)

SpecFactory == Init /\ [][NextFactory]_vars

(***************************************************************************)
(* Properties                                                              *)
(***************************************************************************)
Size(s) == Set_size(sets[s])

Kind(s) == sets[s].kind

\* C1: after every sequence of add and remove calls, migrations included,
\* contains(v) is membership of v in the reference set driven by the same
\* calls, for every v, and size() is the cardinality of the reference set.
C1_MatchesReference ==
    \A s \in SetIds : /\ Elems(sets[s]) = ref[s]
                      /\ Size(s) = Cardinality(ref[s])

\* a set that migrated to Hash and has just migrated back
C1_Witness ==
    /\ last.op = "remove" /\ last.set = "s1" /\ last.hit
    /\ last.mig = "down"
    /\ Size("s1") = SWITCH_THRESHOLD
    /\ fill["s1"].n = -1

\* C2: add(v) on a Vector set whose size is >= SWITCH_THRESHOLD before the
\* insert leaves a Hash set that holds exactly the elements held before the
\* call and v.
C2_AddMigratesFirst ==
    [][\A s \in SetIds :
          (/\ last'.op = "add" /\ last'.set = s
           /\ Kind(s) = "Vector" /\ Size(s) >= SWITCH_THRESHOLD)
          => (/\ sets'[s].kind = "Hash"
              /\ Elems(sets'[s]) = Elems(sets[s]) \cup {last'.val}
              /\ Set_size(sets'[s]) = Cardinality(Elems(sets[s]) \cup {last'.val}))]_vars

\* add of a new value on a Vector set that held more than SWITCH_THRESHOLD
\* elements
C2_Witness ==
    /\ last.op = "add" /\ last.mig = "up" /\ ~last.hit
    /\ Size(last.set) > SWITCH_THRESHOLD + 1

\* C3: remove(v) on a Hash set removes v and then, if the size is
\* <= SWITCH_THRESHOLD, leaves a Vector set holding exactly the remaining
\* elements; a further remove on that Vector set leaves a Vector set holding
\* exactly the remaining elements (sizes 21, 20, 19).
C3_RemoveThenMigrate ==
    [][\A s \in SetIds :
          (last'.op = "remove" /\ last'.set = s)
          => (/\ Elems(sets'[s]) = Elems(sets[s]) \ {last'.val}
              /\ Set_size(sets'[s]) = Cardinality(Elems(sets[s]) \ {last'.val})
              /\ (Kind(s) = "Hash" /\ Set_size(sets'[s]) <= SWITCH_THRESHOLD)
                    => sets'[s].kind = "Vector"
              /\ Kind(s) = "Vector" => sets'[s].kind = "Vector")]_vars

\* size 19 after two removals, the first of which migrated from Hash
C3_Witness ==
    /\ last.op = "remove" /\ last.set = "s1" /\ last.hit
    /\ last.mig = "none" /\ last.pmig = "down"
    /\ Kind("s1") = "Vector"
    /\ Size("s1") = SWITCH_THRESHOLD - 1

\* C4 as claimed: after add(0), ..., add(19) on a new Set the set is Hash and
\* contains 0..19.
C4_HashAfterTwentieth ==
    fill["s1"].n = SWITCH_THRESHOLD
    => (Kind("s1") = "Hash" /\ Elems(sets["s1"]) = 0..(SWITCH_THRESHOLD - 1))

\* C4 as amended: after add(0), ..., add(19) on a new Set the set is still
\* Vector, with size 20 and containing 0..19; the next call, add(20), makes
\* the one migration, and after it the set is Hash with size 21 and contains
\* 0..20.
C4_HashAfterTwentyFirst ==
    /\ fill["s1"].n = SWITCH_THRESHOLD
       => (/\ Kind("s1") = "Vector"
           /\ fill["s1"].ups = 0
           /\ Size("s1") = SWITCH_THRESHOLD
           /\ Elems(sets["s1"]) = 0..(SWITCH_THRESHOLD - 1))
    /\ fill["s1"].n = SWITCH_THRESHOLD + 1
       => (/\ Kind("s1") = "Hash"
           /\ fill["s1"].ups = 1
           /\ Size("s1") = SWITCH_THRESHOLD + 1
           /\ Elems(sets["s1"]) = 0..SWITCH_THRESHOLD)

C4_Witness ==
    /\ fill["s1"].n = SWITCH_THRESHOLD + 1
    /\ last.op = "add" /\ last.val = SWITCH_THRESHOLD /\ last.mig = "up"

\* C5: add(0), ..., add(24) on a new Set makes exactly one migration, from
\* Vector to Hash, and ends Hash with size 25.
C5_OneMigration ==
    fill["s1"].n = FillCount
    => (/\ fill["s1"].ups = 1
        /\ fill["s1"].downs = 0
        /\ Kind("s1") = "Hash"
        /\ Size("s1") = FillCount)

C5_Witness ==
    /\ fill["s1"].n = FillCount
    /\ last.op = "add" /\ last.val = FillCount - 1
    /\ Elems(sets["s1"]) = 0..(FillCount - 1)

\* C6 as claimed: for every pair of sets and every combination of their
\* kinds, a.union_with(b) contains exactly the elements of a or b and
\* a.intersection_with(b) exactly the elements of both, size() is the number
\* of these elements, and the union of {0..24} and {10, 20, 25, 30} has
\* size 26.
C6_UnionOfTwentySix ==
    /\ \A s \in SetIds : Elems(sets[s]) = ref[s]
    /\ Size("r") = Cardinality(ref["r"])
    /\ ( /\ last.op = "union" /\ resOps = 0
         /\ Elems(sets["s1"]) = 0..(FillCount - 1)
         /\ Elems(sets["s2"]) = S2Vals
         /\ ref["r"] = ref["s1"] \cup ref["s2"] )
       => Size("r") = FillCount + 1

\* C6: for every pair of sets and every combination of their kinds,
\* a.union_with(b) contains exactly the elements of a or b and
\* a.intersection_with(b) exactly the elements of both (ref of the result is
\* the union, the intersection of the operands' reference sets), and size()
\* is the number of these elements: the union of {0..24} and
\* {10, 20, 25, 30} has the 27 elements 0..25 and 30, their intersection is
\* {10, 20}.
C6_UnionIntersection ==
    /\ \A s \in {"s1", "s2"} : Elems(sets[s]) = ref[s]
    /\ Elems(sets["r"]) = ref["r"]
    /\ Len(sets["r"].vdata) + Cardinality(sets["r"].hdata) = Cardinality(ref["r"])
    /\ ( /\ resOps = 0
         /\ Elems(sets["s1"]) = 0..(FillCount - 1)
         /\ Elems(sets["s2"]) = S2Vals )
       => /\ ( last.op = "union" /\ ref["r"] = ref["s1"] \cup ref["s2"] )
             => /\ Elems(sets["r"]) = (0..FillCount) \cup {30}
                /\ Size("r") = FillCount + 2
          /\ ( last.op = "intersection" /\ ref["r"] = ref["s1"] \cap ref["s2"] )
             => /\ Elems(sets["r"]) = {10, 20}
                /\ Size("r") = 2

\* the union of s1 = {0..24} (Hash) and s2 = {10, 20, 25, 30} (Vector): 27
\* elements
C6_Witness ==
    /\ last.op = "union" /\ resOps = 0
    /\ Kind("s1") = "Hash" /\ Elems(sets["s1"]) = 0..(FillCount - 1)
    /\ Kind("s2") = "Vector" /\ Elems(sets["s2"]) = S2Vals
    /\ Kind("r") = "Hash"
    /\ Elems(sets["r"]) = (0..(FillCount - 1)) \cup S2Vals
    /\ Size("r") = FillCount + 2

\* C7 as claimed: the set returned by union_with / intersection_with is
\* neither Vector with more than SWITCH_THRESHOLD elements nor Hash with at
\* most SWITCH_THRESHOLD elements.
C7_PolicyAppliedToResult ==
    last.op \in {"union", "intersection"}
    => /\ ~(Kind("r") = "Vector" /\ Size("r") > SWITCH_THRESHOLD)
       /\ ~(Kind("r") = "Hash" /\ Size("r") <= SWITCH_THRESHOLD)

\* C8 as claimed: when the copy loop of a migration throws, size() and
\* contains(v) for every v are what they were before the migration was
\* attempted.
C8_FailedMigrationKeepsElements ==
    Thrown => /\ Elems(sets[last.set]) = ref[last.set]
              /\ Size(last.set) = Cardinality(ref[last.set])

\* C9: union_with and intersection_with leave s1 and s2 as they were, also
\* when both operands are the same set; add and remove on one set leave the
\* other two sets, the result r among them, as they were.
C9_OperandsAndResultIndependent ==
    [][/\ last'.op \in {"union", "intersection"}
          => (sets'["s1"] = sets["s1"] /\ sets'["s2"] = sets["s2"])
       /\ last'.op \in {"add", "remove"}
          => \A o \in SetIds \ {last'.set} : sets'[o] = sets[o]]_vars

\* a call that changed s1 or s2 while r holds a result of them
C9_Witness ==
    /\ resOps = 1
    /\ last.op \in {"add", "remove"} /\ last.set \in {"s1", "s2"}
    /\ last.op = "add" => ~last.hit
    /\ last.op = "remove" => last.hit
    /\ Elems(sets["r"]) # {}

\* C10: add(v) right after add(v) on the same set leaves the elements and
\* size() as the first add(v) left them; remove(v) of a value that is not
\* contained leaves the elements and size() as they were.
C10_Idempotent ==
    [][\A s \in SetIds :
          /\ (last'.op = "add" /\ last'.set = s /\ last'.rep)
             => (/\ Elems(sets'[s]) = Elems(sets[s])
                 /\ Set_size(sets'[s]) = Set_size(sets[s]))
          /\ (last'.op = "remove" /\ last'.set = s /\ ~last'.hit)
             => (/\ Elems(sets'[s]) = Elems(sets[s])
                 /\ Set_size(sets'[s]) = Set_size(sets[s]))]_vars

\* the second of two add(v) calls, on a Vector set of SWITCH_THRESHOLD
\* elements: it migrates and adds nothing
C10_Witness ==
    /\ last.op = "add" /\ last.rep /\ last.hit
    /\ last.mig = "up"
    /\ Size(last.set) = SWITCH_THRESHOLD

\* C11: after every add, remove, union_with and intersection_with, the
\* elements (as a set) and size() are the same in the Set, in the
\* VectorSetImpl and in the HashSetImpl that were given the same calls.
C11_SameInEveryRepresentation ==
    \A s \in SetIds :
        \A e \in SetImpl_get_elements(sets[s]),
           ev \in SetImpl_get_elements(forced[s].v),
           eh \in SetImpl_get_elements(forced[s].h) :
            /\ Range(e) = Range(ev) /\ Range(e) = Range(eh)
            /\ Size(s) = SetImpl_size(forced[s].v)
            /\ Size(s) = SetImpl_size(forced[s].h)

\* r is the intersection of s1 (Hash, 21 elements) and s2, and s1 has since
\* migrated back to Vector
C11_Witness ==
    /\ last.op = "remove" /\ last.set = "s1" /\ last.mig = "down"
    /\ Kind("r") = "Hash" /\ Size("r") = 2
    /\ SetImpl_size(forced["r"].v) = 2
    /\ SetImpl_size(forced["s1"].h) = SWITCH_THRESHOLD

\* C12: add leaves the kind as it is when the set is Hash or holds fewer than
\* SWITCH_THRESHOLD elements before the call; remove leaves the kind as it is
\* when the set is Vector or holds more than SWITCH_THRESHOLD elements after
\* the call; contains, size, print, union_with and intersection_with leave the
\* kind of the set they are called on as it is.
C12_NoMigrationOutsideTriggers ==
    [][\A s \in SetIds :
          /\ ( /\ last'.op = "add" /\ last'.set = s
               /\ (Kind(s) = "Hash" \/ Size(s) < SWITCH_THRESHOLD) )
             => sets'[s].kind = Kind(s)
          /\ ( /\ last'.op = "remove" /\ last'.set = s
               /\ (Kind(s) = "Vector" \/ Set_size(sets'[s]) > SWITCH_THRESHOLD) )
             => sets'[s].kind = Kind(s)
          /\ ( /\ last'.op \in {"query", "union", "intersection"}
               /\ s \in {"s1", "s2"} )
             => sets'[s].kind = Kind(s)]_vars

\* a remove on a Hash set that still holds more than SWITCH_THRESHOLD
\* elements
C12_Witness ==
    /\ last.op = "remove" /\ last.hit /\ last.mig = "none"
    /\ Kind(last.set) = "Hash"
    /\ Size(last.set) > SWITCH_THRESHOLD

\* C13: on a Vector set of exactly SWITCH_THRESHOLD elements add(x) of a
\* value not contained migrates to Hash, and the remove(x) that follows it
\* migrates back, leaving a Vector set of SWITCH_THRESHOLD elements without
\* x again: in add(x), remove(x), add(x), ... every call migrates.
C13_Thrashing ==
    [][\A s \in SetIds :
          /\ ( /\ last'.op = "add" /\ last'.set = s /\ ~last'.hit
               /\ Kind(s) = "Vector" /\ Size(s) = SWITCH_THRESHOLD )
             => /\ last'.mig = "up"
                /\ sets'[s].kind = "Hash"
                /\ Set_size(sets'[s]) = SWITCH_THRESHOLD + 1
          /\ ( /\ last.op = "add" /\ last.set = s /\ ~last.hit /\ last.mig = "up"
               /\ Size(s) = SWITCH_THRESHOLD + 1
               /\ last'.op = "remove" /\ last'.set = s /\ last'.val = last.val )
             => /\ last'.mig = "down"
                /\ sets'[s].kind = "Vector"
                /\ Set_size(sets'[s]) = SWITCH_THRESHOLD
                /\ ~Set_contains(sets'[s], last'.val)]_vars

\* add(x), remove(x), add(x), remove(x), each of which migrated
C13_Witness ==
    /\ last.thrash = MaxThrash
    /\ last.op = "remove" /\ last.set = "s1"
    /\ Kind("s1") = "Vector" /\ Size("s1") = SWITCH_THRESHOLD

\* C14: union_with and intersection_with called on a VectorSetImpl return a
\* VectorSetImpl and called on a HashSetImpl return a HashSetImpl, whatever
\* the kind of the argument, and the Set that Set::union_with and
\* Set::intersection_with return has the kind of the set called: r has the
\* kind of the receiver (s1 or s2) of the call that returned it, and what a
\* call on r with any of the sets as argument returns has the kind of r.
C14_LeftVariantKept ==
    /\ last.op \in {"union", "intersection"} => Kind("r") = last.recv
    /\ \A b \in SetIds :
          /\ \A i \in SetImpl_union_with(sets["r"], sets[b]) : i.kind = Kind("r")
          /\ \A i \in SetImpl_intersection_with(sets["r"], sets[b]) : i.kind = Kind("r")
          /\ \A i \in Set_union_with(sets["r"], sets[b]) : i.kind = Kind("r")
          /\ \A i \in Set_intersection_with(sets["r"], sets[b]) : i.kind = Kind("r")

\* s2 (Vector) united with s1 (Hash): a Vector set of 27 elements
C14_Witness ==
    /\ last.op = "union" /\ last.recv = "Vector" /\ resOps = 0
    /\ Kind("s1") = "Hash" /\ Kind("s2") = "Vector"
    /\ ref["s1"] = 0..(FillCount - 1) /\ ref["s2"] = S2Vals
    /\ ref["r"] = ref["s1"] \cup ref["s2"]
    /\ Kind("r") = "Vector"

\* C15: in every set reached by add, remove, union_with and
\* intersection_with (any two sets, a set with itself included), and in
\* every set that a call of union_with / intersection_with on the result r
\* returns, the vector of a VectorSetImpl holds no value twice and size() is
\* the number of distinct elements.
C15_NoDuplicates ==
    LET Distinct(i) == /\ Len(i.vdata) = Cardinality(Range(i.vdata))
                       /\ Set_size(i) = Cardinality(Stored(i))
    IN  /\ \A s \in SetIds : Distinct(sets[s])
        /\ \A b \in SetIds :
              /\ \A i \in Set_union_with(sets["r"], sets[b]) : Distinct(i)
              /\ \A i \in Set_intersection_with(sets["r"], sets[b]) : Distinct(i)

\* a Vector set united with a set that shares elements with it, then changed
\* by add or remove
C15_Witness ==
    /\ resOps = 1 /\ last.set = "r" /\ last.op \in {"add", "remove"}
    /\ Kind("r") = "Vector"
    /\ Kind("s1") = "Vector" /\ ref["s1"] \cap ref["s2"] # {}
    /\ ref["s1"] \cup ref["s2"] \subseteq ref["r"] \cup {last.val}
    /\ Size("r") > Size("s1")

\* C16 as claimed: whenever a set is Vector, get_elements lists its elements
\* in the order in which the add calls inserted them, earliest surviving
\* insertion first (the order a VectorSetImpl given the same add and remove
\* calls holds them in), also after the set has been Hash.
C16_InsertionOrder ==
    Kind("s1") = "Vector"
    => SetImpl_get_elements(sets["s1"]) = SetImpl_get_elements(forced["s1"].v)

\* C17: a set built by add and remove alone holds at most SWITCH_THRESHOLD
\* elements when it is Vector and at least SWITCH_THRESHOLD elements when it
\* is Hash, and more than SWITCH_THRESHOLD elements when it is Hash right
\* after a remove.
C17_KindAndSize ==
    /\ Kind("s1") = "Vector" => Size("s1") <= SWITCH_THRESHOLD
    /\ Kind("s1") = "Hash" => Size("s1") >= SWITCH_THRESHOLD
    /\ (last.op = "remove" /\ Kind("s1") = "Hash") => Size("s1") > SWITCH_THRESHOLD

\* a Hash set of exactly SWITCH_THRESHOLD elements
C17_Witness ==
    /\ Kind("s1") = "Hash" /\ Size("s1") = SWITCH_THRESHOLD
    /\ last.op = "add" /\ last.set = "s1"

\* C18: add(v) of a contained v on a Vector set of exactly SWITCH_THRESHOLD
\* elements leaves a Hash set of SWITCH_THRESHOLD elements, the same ones;
\* remove of any value, contained or not, on a Hash set of SWITCH_THRESHOLD
\* elements leaves a Vector set.
C18_AddPresentAtThreshold ==
    [][/\ ( /\ last'.op = "add" /\ last'.set = "s1" /\ last'.hit
            /\ Kind("s1") = "Vector" /\ Size("s1") = SWITCH_THRESHOLD )
          => /\ sets'["s1"].kind = "Hash"
             /\ Set_size(sets'["s1"]) = SWITCH_THRESHOLD
             /\ Elems(sets'["s1"]) = Elems(sets["s1"])
       /\ ( /\ last'.op = "remove" /\ last'.set = "s1"
            /\ Kind("s1") = "Hash" /\ Size("s1") = SWITCH_THRESHOLD )
          => /\ sets'["s1"].kind = "Vector"
             /\ Elems(sets'["s1"]) = Elems(sets["s1"]) \ {last'.val}]_vars

\* remove of a value that is not contained, right after the add of a
\* contained value migrated the set of SWITCH_THRESHOLD elements to Hash
C18_Witness ==
    /\ last.op = "remove" /\ last.set = "s1" /\ ~last.hit
    /\ last.mig = "down" /\ last.pmig = "up"
    /\ Kind("s1") = "Vector" /\ Size("s1") = SWITCH_THRESHOLD

\* C19: remove on a Vector set leaves a Vector set, whatever its size (a
\* Vector set of more than SWITCH_THRESHOLD elements is what union_with
\* returns for a Vector receiver); right after add the set called is Hash or
\* holds at most SWITCH_THRESHOLD elements.
C19_LargeVectorUntilAdd ==
    [][\A s \in SetIds :
          /\ (last'.op = "remove" /\ last'.set = s /\ Kind(s) = "Vector")
             => sets'[s].kind = "Vector"
          /\ (last'.op = "add" /\ last'.set = s)
             => \/ sets'[s].kind = "Hash"
                \/ Set_size(sets'[s]) <= SWITCH_THRESHOLD]_vars

\* the union of s1 (Vector) and s2, still Vector with more than
\* SWITCH_THRESHOLD elements after a remove
C19_Witness ==
    /\ last.op = "remove" /\ last.set = "r" /\ last.hit
    /\ Kind("r") = "Vector" /\ Size("r") > SWITCH_THRESHOLD
    /\ Kind("s1") = "Vector"

\* C20 as claimed: counter<Number>::count() is the number of Number objects
\* alive.
C20_CountIsAlive ==
    numbers.count_ = Len(numbers.objs)

\* C21: createConstant(v) returns the object the createConstant(v) call
\* before it returned when no removeConstant(v) call was made between the
\* two; for v in MinCached..MaxCached it returns the object it returned
\* first, an object the constructor built, whatever calls were made;
\* createVariable(n) returns the object the createVariable(n) call before it
\* returned when no removeVariable(n) call was made between the two.  No
\* call returns an empty shared_ptr.
C21_Flyweight ==
    [][/\ fcall'.op = "createConstant"
          => LET v == fcall'.key IN
             /\ fcall'.ret # Null
             /\ fcall.sinceC[v] # Null => fcall'.ret = fcall.sinceC[v]
             /\ (v >= MinCached /\ v <= MaxCached)
                => /\ fcall'.ret = ExpressionFactory_new.constants[v]
                   /\ fcall.firstC[v] # Null => fcall'.ret = fcall.firstC[v]
       /\ fcall'.op = "createVariable"
          => /\ fcall'.ret # Null
             /\ fcall.sinceV[fcall'.key] # Null
                => fcall'.ret = fcall.sinceV[fcall'.key]]_vars

\* createConstant(256) after removeConstant(256), returning the object the
\* first createConstant(256) returned, while a constant outside the range
\* and a variable have been made anew
C21_Witness ==
    /\ fcall.op = "createConstant" /\ fcall.key = MaxCached
    /\ MaxCached \in fcall.removedC
    /\ fcall.ret = fcall.firstC[MaxCached]
    /\ MaxCached + 1 \in fcall.removedC
    /\ fcall.sinceC[MaxCached + 1] > ExpressionFactory_new.next
    /\ fcall.sinceV["x"] # Null

====
